---- MODULE Spec2Model ----
(***************************************************************************)
(* Huffman standard tables of the JBIG2 decoder: the lazily filled cache   *)
(* behind GetStandardTable, the construction of a table from its rows      *)
(* (newStandardTable, InitTree) and the decoding of a bit stream against   *)
(* the prefix tree.                                                        *)
(***************************************************************************)
EXTENDS Integers, Sequences, FiniteSets, TLC

(***************************************************************************)
(* Bounds of the model.                                                    *)
(***************************************************************************)
\* number of GetStandardTable calls started in one behaviour
MaxCalls == 2
\* longest prefix length of a code handed to InitTree by a holder of a table
MaxHolderPrefix == 2
\* longest bit stream handed to Decode by a holder of a table
MaxHolderBits == 2
\* largest table number the concurrent callers ask for
MaxRaceNumber == 2
\* most objects handed to CompressStreams.Optimize
MaxObjects == 2
\* longest stream data handed to CompressStreams.Optimize
MaxStreamLen == 2
\* longest string form of the encoder's stream dictionary
MaxDictLen == 1
\* most operands of a default appearance string (DA)
MaxDaOps == 2
\* most segments of a JBIG2 stream
MaxSegments == 3
\* most fields of a form: the longest chain of parents
MaxFields == 3

(***************************************************************************)
(* The rows of the 15 standard tables B1..B15:                             *)
(* <<prefixLength, rangeLength, rangeLow>>, a fourth element marks "low".  *)
(***************************************************************************)
tables ==
  << << <<1, 4, 0>>, <<2, 8, 16>>, <<3, 16, 272>>, <<3, 32, 65808>> >>,
     << <<1, 0, 0>>, <<2, 0, 1>>, <<3, 0, 2>>, <<4, 3, 3>>, <<5, 6, 11>>, <<6, 32, 75>>, <<6, -1, 0>> >>,
     << <<8, 8, -256>>, <<1, 0, 0>>, <<2, 0, 1>>, <<3, 0, 2>>, <<4, 3, 3>>, <<5, 6, 11>>, <<8, 32, -257, 999>>, <<7, 32, 75>>, <<6, -1, 0>> >>,
     << <<1, 0, 1>>, <<2, 0, 2>>, <<3, 0, 3>>, <<4, 3, 4>>, <<5, 6, 12>>, <<5, 32, 76>> >>,
     << <<7, 8, -255>>, <<1, 0, 1>>, <<2, 0, 2>>, <<3, 0, 3>>, <<4, 3, 4>>, <<5, 6, 12>>, <<7, 32, -256, 999>>, <<6, 32, 76>> >>,
     << <<5, 10, -2048>>, <<4, 9, -1024>>, <<4, 8, -512>>, <<4, 7, -256>>, <<5, 6, -128>>, <<5, 5, -64>>, <<4, 5, -32>>, <<2, 7, 0>>, <<3, 7, 128>>, <<3, 8, 256>>, <<4, 9, 512>>, <<4, 10, 1024>>, <<6, 32, -2049, 999>>, <<6, 32, 2048>> >>,
     << <<4, 9, -1024>>, <<3, 8, -512>>, <<4, 7, -256>>, <<5, 6, -128>>, <<5, 5, -64>>, <<4, 5, -32>>, <<4, 5, 0>>, <<5, 5, 32>>, <<5, 6, 64>>, <<4, 7, 128>>, <<3, 8, 256>>, <<3, 9, 512>>, <<3, 10, 1024>>, <<5, 32, -1025, 999>>, <<5, 32, 2048>> >>,
     << <<8, 3, -15>>, <<9, 1, -7>>, <<8, 1, -5>>, <<9, 0, -3>>, <<7, 0, -2>>, <<4, 0, -1>>, <<2, 1, 0>>, <<5, 0, 2>>, <<6, 0, 3>>, <<3, 4, 4>>, <<6, 1, 20>>, <<4, 4, 22>>, <<4, 5, 38>>, <<5, 6, 70>>, <<5, 7, 134>>, <<6, 7, 262>>, <<7, 8, 390>>, <<6, 10, 646>>, <<9, 32, -16, 999>>, <<9, 32, 1670>>, <<2, -1, 0>> >>,
     << <<8, 4, -31>>, <<9, 2, -15>>, <<8, 2, -11>>, <<9, 1, -7>>, <<7, 1, -5>>, <<4, 1, -3>>, <<3, 1, -1>>, <<3, 1, 1>>, <<5, 1, 3>>, <<6, 1, 5>>, <<3, 5, 7>>, <<6, 2, 39>>, <<4, 5, 43>>, <<4, 6, 75>>, <<5, 7, 139>>, <<5, 8, 267>>, <<6, 8, 523>>, <<7, 9, 779>>, <<6, 11, 1291>>, <<9, 32, -32, 999>>, <<9, 32, 3339>>, <<2, -1, 0>> >>,
     << <<7, 4, -21>>, <<8, 0, -5>>, <<7, 0, -4>>, <<5, 0, -3>>, <<2, 2, -2>>, <<5, 0, 2>>, <<6, 0, 3>>, <<7, 0, 4>>, <<8, 0, 5>>, <<2, 6, 6>>, <<5, 5, 70>>, <<6, 5, 102>>, <<6, 6, 134>>, <<6, 7, 198>>, <<6, 8, 326>>, <<6, 9, 582>>, <<6, 10, 1094>>, <<7, 11, 2118>>, <<8, 32, -22, 999>>, <<8, 32, 4166>>, <<2, -1, 0>> >>,
     << <<1, 0, 1>>, <<2, 1, 2>>, <<4, 0, 4>>, <<4, 1, 5>>, <<5, 1, 7>>, <<5, 2, 9>>, <<6, 2, 13>>, <<7, 2, 17>>, <<7, 3, 21>>, <<7, 4, 29>>, <<7, 5, 45>>, <<7, 6, 77>>, <<7, 32, 141>> >>,
     << <<1, 0, 1>>, <<2, 0, 2>>, <<3, 1, 3>>, <<5, 0, 5>>, <<5, 1, 6>>, <<6, 1, 8>>, <<7, 0, 10>>, <<7, 1, 11>>, <<7, 2, 13>>, <<7, 3, 17>>, <<7, 4, 25>>, <<8, 5, 41>>, <<8, 32, 73>> >>,
     << <<1, 0, 1>>, <<3, 0, 2>>, <<4, 0, 3>>, <<5, 0, 4>>, <<4, 1, 5>>, <<3, 3, 7>>, <<6, 1, 15>>, <<6, 2, 17>>, <<6, 3, 21>>, <<6, 4, 29>>, <<6, 5, 45>>, <<7, 6, 77>>, <<7, 32, 141>> >>,
     << <<3, 0, -2>>, <<3, 0, -1>>, <<1, 0, 0>>, <<3, 0, 1>>, <<3, 0, 2>> >>,
     << <<7, 4, -24>>, <<6, 2, -8>>, <<5, 1, -4>>, <<4, 0, -2>>, <<3, 0, -1>>, <<1, 0, 0>>, <<3, 0, 1>>, <<4, 0, 2>>, <<5, 1, 3>>, <<6, 2, 5>>, <<7, 4, 9>>, <<7, 32, -25, 999>>, <<7, 32, 25>> >> >>

\* len(standardTables) == len(tables)
NumTables == Len(tables)

(***************************************************************************)
(* Integer helpers.  Go's int64 / uint64 values are kept as four 16-bit    *)
(* limbs, least significant first, so that 32-bit raw offsets and the      *)
(* 64-bit results of Decode keep their width.                              *)
(***************************************************************************)
RECURSIVE Pow2(_)
Pow2(n) == IF n <= 0 THEN 1 ELSE 2 * Pow2(n - 1)

Limb == Pow2(16)

\* the limbs of a natural number below 2^31
NatTo64(x) == << x % Limb, x \div Limb, 0, 0 >>

\* a + b modulo 2^64
Add64(a, b) ==
  LET s1 == a[1] + b[1]
      s2 == a[2] + b[2] + (s1 \div Limb)
      s3 == a[3] + b[3] + (s2 \div Limb)
      s4 == a[4] + b[4] + (s3 \div Limb)
  IN << s1 % Limb, s2 % Limb, s3 % Limb, s4 % Limb >>

\* -a modulo 2^64 (two's complement)
Neg64(a) ==
  Add64(<< Limb - 1 - a[1], Limb - 1 - a[2], Limb - 1 - a[3], Limb - 1 - a[4] >>,
        << 1, 0, 0, 0 >>)

\* int64(x) of an int32 x
Int32To64(x) == IF x >= 0 THEN NatTo64(x) ELSE Neg64(NatTo64(0 - x))

\* math.MaxInt64
MaxInt64 == << Limb - 1, Limb - 1, Limb - 1, (Limb \div 2) - 1 >>

(***************************************************************************)
(* Code: one entry of a table.  code is the prefix assigned by             *)
(* preprocessCodes, -1 until then.                                         *)
(***************************************************************************)
NewCode(prefixLength, rangeLength, rangeLow, isLowerRange) ==
  [ prefixLength |-> prefixLength, rangeLength |-> rangeLength,
    rangeLow |-> rangeLow, isLowerRange |-> isLowerRange, code |-> 0 - 1 ]

RECURSIVE MaxPrefixLength(_)
MaxPrefixLength(codeTable) ==
  IF codeTable = << >> THEN 0
  ELSE LET m == MaxPrefixLength(Tail(codeTable))
       IN IF Head(codeTable).prefixLength > m THEN Head(codeTable).prefixLength ELSE m

\* number of codes of prefix length l (none counted for length 0)
LenCount(codeTable, l) ==
  IF l = 0 THEN 0
  ELSE Cardinality({ i \in 1..Len(codeTable) : codeTable[i].prefixLength = l })

\* firstCode[1..l]: firstCode[k] = (firstCode[k-1] + lenCount[k-1]) << 1
RECURSIVE FirstCodes(_, _)
FirstCodes(codeTable, l) ==
  IF l <= 0 THEN << >>
  ELSE IF l = 1 THEN << 0 >>
  ELSE LET prev == FirstCodes(codeTable, l - 1)
       IN Append(prev, (prev[l - 1] + LenCount(codeTable, l - 1)) * 2)

\* Assigns the prefixes: codes taken by ascending prefix length and, within
\* one length, in declaration order, each getting the next free prefix.
preprocessCodes(codeTable) ==
  LET firstCode == FirstCodes(codeTable, MaxPrefixLength(codeTable))
  IN [ i \in 1..Len(codeTable) |->
         LET c == codeTable[i]
             before == Cardinality({ j \in 1..(i - 1) :
                                       codeTable[j].prefixLength = c.prefixLength })
         IN IF c.prefixLength >= 1
            THEN [ c EXCEPT !.code = firstCode[c.prefixLength] + before ]
            ELSE c ]

(***************************************************************************)
(* The prefix tree.  A tree is the set of its nodes; a node is known by    *)
(* its depth and by the bits on the way from the root (path, as a number). *)
(***************************************************************************)
newInternalNode(depth, path) ==
  [ depth |-> depth, path |-> path, kind |-> "internal",
    rangeLength |-> 0, rangeLow |-> 0, isLowerRange |-> FALSE ]

newValueNode(depth, path, c) ==
  [ depth |-> depth, path |-> path, kind |-> "value",
    rangeLength |-> c.rangeLength, rangeLow |-> c.rangeLow,
    isLowerRange |-> c.isLowerRange ]

newOutOfBandNode(depth, path, c) ==
  [ depth |-> depth, path |-> path, kind |-> "oob",
    rangeLength |-> 0, rangeLow |-> 0, isLowerRange |-> FALSE ]

NodesAt(tree, depth, path) == { x \in tree : x.depth = depth /\ x.path = path }

NodeAt(tree, depth, path) == CHOOSE x \in NodesAt(tree, depth, path) : TRUE

\* InternalNode.append: hangs the leaf of code c below the internal node at
\* (depth, path), creating the internal nodes on the way.  A code that runs
\* into an occupied place is refused and the tree is left as it is.
RECURSIVE append(_, _, _, _)
append(tree, depth, path, c) ==
  IF c.prefixLength = 0 THEN [ tree |-> tree, err |-> FALSE ]
  ELSE
    LET shift == c.prefixLength - 1 - depth
        bit   == (c.code \div Pow2(shift)) % 2
        child == path * 2 + bit
    IN IF shift < 0 THEN [ tree |-> tree, err |-> TRUE ]
       ELSE IF shift = 0
       THEN IF NodesAt(tree, depth + 1, child) # {}
            THEN [ tree |-> tree, err |-> TRUE ]
            ELSE [ tree |-> tree \cup
                     { IF c.rangeLength = 0 - 1
                       THEN newOutOfBandNode(depth + 1, child, c)
                       ELSE newValueNode(depth + 1, child, c) },
                   err |-> FALSE ]
       ELSE IF NodesAt(tree, depth + 1, child) = {}
       THEN append(tree \cup { newInternalNode(depth + 1, child) }, depth + 1, child, c)
       ELSE IF NodeAt(tree, depth + 1, child).kind = "internal"
       THEN append(tree, depth + 1, child, c)
       ELSE [ tree |-> tree, err |-> TRUE ]

(***************************************************************************)
(* StandardTable                                                           *)
(***************************************************************************)
\* InitTree with the call of preprocessCodes lost
InitTree_NoPreprocess(s, codeTable) ==
  LET codes == codeTable
      RECURSIVE loop(_, _)
      loop(root, i) ==
        IF i > Len(codes) THEN [ rootNode |-> root, err |-> FALSE ]
        ELSE LET r == append(root, 0, 0, codes[i])
             IN IF r.err THEN [ rootNode |-> r.tree, err |-> TRUE ]
                ELSE loop(r.tree, i + 1)
      done == loop(s.rootNode, 1)
  IN [ s |-> [ rootNode |-> done.rootNode ], codeTable |-> codes, err |-> done.err ]

\* InitTree that starts from a new root instead of the table's rootNode
InitTree_NewRoot(s, codeTable) ==
  LET codes == preprocessCodes(codeTable)
      RECURSIVE loop(_, _)
      loop(root, i) ==
        IF i > Len(codes) THEN [ rootNode |-> root, err |-> FALSE ]
        ELSE LET r == append(root, 0, 0, codes[i])
             IN IF r.err THEN [ rootNode |-> r.tree, err |-> TRUE ]
                ELSE loop(r.tree, i + 1)
      done == loop({ newInternalNode(0, 0) }, 1)
  IN [ s |-> [ rootNode |-> done.rootNode ], codeTable |-> codes, err |-> done.err ]

\* StandardTable.InitTree: preprocessCodes, then append of every code in
\* declaration order, stopping at the first error.
InitTree(s, codeTable) ==
  LET codes == preprocessCodes(codeTable)
      RECURSIVE loop(_, _)
      loop(root, i) ==
        IF i > Len(codes) THEN [ rootNode |-> root, err |-> FALSE ]
        ELSE LET r == append(root, 0, 0, codes[i])
             IN IF r.err THEN [ rootNode |-> r.tree, err |-> TRUE ]
                ELSE loop(r.tree, i + 1)
      done == loop(s.rootNode, 1)
  IN [ s |-> [ rootNode |-> done.rootNode ], codeTable |-> codes, err |-> done.err ]

\* RowsToCodes reading rangeLow from the column of rangeLength
RowsToCodes_LowFromLength(table) ==
  [ i \in 1..Len(table) |->
      NewCode(table[i][1], table[i][2], table[i][2], Len(table[i]) > 3) ]

\* RowsToCodes taking every row of three or more elements for a low row
RowsToCodes_AlwaysLow(table) ==
  [ i \in 1..Len(table) |->
      NewCode(table[i][1], table[i][2], table[i][3], Len(table[i]) >= 3) ]

\* RowsToCodes reading rangeLength from the column of prefixLength
RowsToCodes_LengthFromPrefix(table) ==
  [ i \in 1..Len(table) |->
      NewCode(table[i][1], table[i][1], table[i][3], Len(table[i]) > 3) ]

\* the codes newStandardTable makes of the rows of a table
RowsToCodes(table) ==
  [ i \in 1..Len(table) |->
      NewCode(table[i][1], table[i][2], table[i][3], Len(table[i]) > 3) ]

\* newStandardTable: ok is FALSE for the (nil, err) return
newStandardTable(table) ==
  LET r == InitTree([ rootNode |-> { newInternalNode(0, 0) } ], RowsToCodes(table))
  IN [ s |-> r.s, codeTable |-> r.codeTable, ok |-> ~r.err ]

(***************************************************************************)
(* Decoding.  The reader is a sequence of bits and a position.             *)
(***************************************************************************)
\* the value of bits[from..to], most significant bit first (at most 16 bits)
RECURSIVE BitsToNat(_, _, _)
BitsToNat(bits, from, to) ==
  IF from > to THEN 0 ELSE BitsToNat(bits, from, to - 1) * 2 + bits[to]

\* reader.ReadBits(n), n <= 64: the next n bits as a uint64
ReadBits(bits, pos, n) ==
  LET last == pos + n - 1
      limb(k) == \* limb k (0 = least significant) of the n bits read
        LET hi == last - 16 * k
            lo == IF hi - 15 < pos THEN pos ELSE hi - 15
        IN BitsToNat(bits, lo, hi)
  IN IF last > Len(bits) THEN [ value |-> NatTo64(0), err |-> TRUE, pos |-> pos ]
     ELSE [ value |-> << limb(0), limb(1), limb(2), limb(3) >>, err |-> FALSE,
            pos |-> pos + n ]

\* Node.Decode at the node (depth, path), reading from position pos
RECURSIVE DecodeNode(_, _, _, _, _)
DecodeNode(tree, depth, path, bits, pos) ==
  IF NodesAt(tree, depth, path) = {}
  THEN [ value |-> NatTo64(0), err |-> TRUE, pos |-> pos ]
  ELSE
    LET node == NodeAt(tree, depth, path)
    IN CASE node.kind = "internal" ->
              IF pos > Len(bits)
              THEN [ value |-> NatTo64(0), err |-> TRUE, pos |-> pos ]
              ELSE DecodeNode(tree, depth + 1, path * 2 + bits[pos], bits, pos + 1)
         [] node.kind = "oob" ->
              [ value |-> MaxInt64, err |-> FALSE, pos |-> pos ]
         [] OTHER ->
              LET raw == ReadBits(bits, pos, node.rangeLength)
              IN IF raw.err THEN [ value |-> NatTo64(0), err |-> TRUE, pos |-> pos ]
                 ELSE [ value |-> Add64(Int32To64(node.rangeLow),
                                        IF node.isLowerRange THEN Neg64(raw.value)
                                        ELSE raw.value),
                        err |-> FALSE, pos |-> raw.pos ]

\* StandardTable.Decode
Decode(s, bits) == DecodeNode(s.rootNode, 0, 0, bits, 1)

\* StandardTable.RootNode
RootNode(s) == s.rootNode

\* StandardTable.String: the nodes of the tree from the root, zero branch first
RECURSIVE NodeString(_, _, _)
NodeString(tree, depth, path) ==
  IF NodesAt(tree, depth, path) = {} THEN << >>
  ELSE LET node == NodeAt(tree, depth, path)
       IN IF node.kind = "internal"
          THEN NodeString(tree, depth + 1, path * 2) \o
               NodeString(tree, depth + 1, path * 2 + 1)
          ELSE << << depth, path, node.kind, node.rangeLength, node.rangeLow,
                     node.isLowerRange >> >>

String(s) == NodeString(s.rootNode, 0, 0) \o << "\n" >>

(***************************************************************************)
(* The program state: the package-level cache standardTables, the tables   *)
(* allocated so far, and the goroutines inside GetStandardTable.           *)
(***************************************************************************)
VARIABLES
  standardTables, \* slot n-1 of the cache: 0 is nil, else a table of heap
  heap,           \* the StandardTables allocated by newStandardTable, in order
  pc,             \* where each goroutine is in GetStandardTable
  number,         \* the argument of each goroutine's call
  table,          \* the local variable table of each goroutine's call
  ret,            \* the (Tabler, error) each goroutine's call returned
  stores,         \* how often each slot of standardTables was assigned
  ncalls,         \* calls started so far
  hits,           \* calls that found their table in the cache
  op,             \* the last method call on a table, with its result
  opt,            \* a call of CompressStreams.Optimize: objects, position, result
  gen,            \* a call of FieldAppearance.GenerateAppearanceDict
  da,             \* a call of AppearanceStyle.processDA
  doc,            \* the JBIG2 document being assembled from its segments
  getda           \* a call of getDA: the fields and the field it is at

vars == << standardTables, heap, pc, number, table, ret, stores, ncalls, hits, op,
           opt, gen, da, doc, getda >>

\* the state of the standard table cache
cacheVars == << standardTables, heap, pc, number, table, ret, stores, ncalls, hits, op >>

Goroutines == 1..2

\* the arguments GetStandardTable is called with
Numbers == (0 - 1)..(NumTables + 1)

\* the arguments of the concurrent callers
RaceNumbers == 0..MaxRaceNumber

NoRet == [ table |-> 0, err |-> "" ]
NoOp  == [ name |-> "", g |-> 0, arg |-> << >>, err |-> FALSE, value |-> << >> ]

CacheInit ==
  /\ standardTables = [ n \in 1..NumTables |-> 0 ]
  /\ heap = << >>
  /\ pc = [ g \in Goroutines |-> "idle" ]
  /\ number = [ g \in Goroutines |-> 0 ]
  /\ table = [ g \in Goroutines |-> 0 ]
  /\ ret = [ g \in Goroutines |-> NoRet ]
  /\ stores = [ n \in 1..NumTables |-> 0 ]
  /\ ncalls = 0
  /\ hits = 0
  /\ op = NoOp

\* nothing but the table cache is in use
Init ==
  /\ CacheInit
  /\ opt = 0
  /\ gen = 0
  /\ da = 0
  /\ doc = 0
  /\ getda = 0

(***************************************************************************)
(* GetStandardTable, one action per access to the shared cache.            *)
(***************************************************************************)
\* Call with the upper bound of the range check off by one
Call_OffByOne(g, n) ==
  /\ pc[g] = "idle"
  /\ ncalls < MaxCalls
  /\ ncalls' = ncalls + 1
  /\ number' = [ number EXCEPT ![g] = n ]
  /\ table' = [ table EXCEPT ![g] = 0 ]
  /\ IF n <= 0 \/ n >= NumTables
     THEN /\ ret' = [ ret EXCEPT ![g] = [ table |-> 0, err |-> "Index out of range" ] ]
          /\ pc' = [ pc EXCEPT ![g] = "done" ]
     ELSE /\ ret' = [ ret EXCEPT ![g] = NoRet ]
          /\ pc' = [ pc EXCEPT ![g] = "load" ]
  /\ op' = NoOp
  /\ UNCHANGED << standardTables, heap, stores, hits >>

\* entry and the range check:  number <= 0 || number > len(standardTables)
Call(g, n) ==
  /\ pc[g] = "idle"
  /\ ncalls < MaxCalls
  /\ ncalls' = ncalls + 1
  /\ number' = [ number EXCEPT ![g] = n ]
  /\ table' = [ table EXCEPT ![g] = 0 ]
  /\ IF n <= 0 \/ n > NumTables
     THEN /\ ret' = [ ret EXCEPT ![g] = [ table |-> 0, err |-> "Index out of range" ] ]
          /\ pc' = [ pc EXCEPT ![g] = "done" ]
     ELSE /\ ret' = [ ret EXCEPT ![g] = NoRet ]
          /\ pc' = [ pc EXCEPT ![g] = "load" ]
  /\ op' = NoOp
  /\ UNCHANGED << standardTables, heap, stores, hits >>

\* Load with the nil test lost: the cached table is never used
Load_NeverCached(g) ==
  /\ pc[g] = "load"
  /\ table' = [ table EXCEPT ![g] = 0 ]
  /\ pc' = [ pc EXCEPT ![g] = "new" ]
  /\ hits' = hits
  /\ UNCHANGED << standardTables, heap, number, ret, stores, ncalls, op >>

\* table := standardTables[number-1];  if table == nil
Load(g) ==
  /\ pc[g] = "load"
  /\ table' = [ table EXCEPT ![g] = standardTables[number[g]] ]
  /\ pc' = [ pc EXCEPT ![g] = IF standardTables[number[g]] = 0 THEN "new" ELSE "return" ]
  /\ hits' = IF standardTables[number[g]] = 0 THEN hits ELSE hits + 1
  /\ UNCHANGED << standardTables, heap, number, ret, stores, ncalls, op >>

\* table, err = newStandardTable(tables[number-1]);  if err != nil return nil, err
New(g) ==
  /\ pc[g] = "new"
  /\ LET r == newStandardTable(tables[number[g]])
     IN IF r.ok
        THEN /\ heap' = Append(heap, [ number |-> number[g], s |-> r.s,
                                       codeTable |-> r.codeTable ])
             /\ table' = [ table EXCEPT ![g] = Len(heap) + 1 ]
             /\ pc' = [ pc EXCEPT ![g] = "store" ]
             /\ ret' = ret
        ELSE /\ ret' = [ ret EXCEPT ![g] = [ table |-> 0, err |-> "InitTree" ] ]
             /\ pc' = [ pc EXCEPT ![g] = "done" ]
             /\ UNCHANGED << heap, table >>
  /\ UNCHANGED << standardTables, number, stores, ncalls, hits, op >>

\* standardTables[number-1] = table
Store(g) ==
  /\ pc[g] = "store"
  /\ standardTables' = [ standardTables EXCEPT ![number[g]] = table[g] ]
  /\ stores' = [ stores EXCEPT ![number[g]] = @ + 1 ]
  /\ pc' = [ pc EXCEPT ![g] = "return" ]
  /\ UNCHANGED << heap, number, table, ret, ncalls, hits, op >>

\* return table, nil
Return(g) ==
  /\ pc[g] = "return"
  /\ ret' = [ ret EXCEPT ![g] = [ table |-> table[g], err |-> "" ] ]
  /\ pc' = [ pc EXCEPT ![g] = "done" ]
  /\ UNCHANGED << standardTables, heap, number, table, stores, ncalls, hits, op >>

\* the caller goes on to its next call; it may keep the Tabler it was given
Continue(g) ==
  /\ pc[g] = "done"
  /\ ncalls < MaxCalls
  /\ pc' = [ pc EXCEPT ![g] = "idle" ]
  /\ UNCHANGED << standardTables, heap, number, table, ret, stores, ncalls, hits, op >>

(***************************************************************************)
(* The methods of the Tabler a caller was given.                           *)
(***************************************************************************)
Holds(g) == ret[g].table # 0

HolderStreams == { << >> } \cup { [ i \in 1..MaxHolderBits |-> b ] : b \in {0, 1} }

HolderCode(p) == NewCode(p, 0, 99, FALSE)

HolderCodeTables(n) ==
  { << HolderCode(p) >> : p \in 0..MaxHolderPrefix }
    \cup { << HolderCode(MaxHolderPrefix), HolderCode(1) >> }
    \cup { RowsToCodes(tables[n]) }

HolderDecode(g, bits) ==
  /\ Holds(g)
  /\ LET r == Decode(heap[ret[g].table].s, bits)
     IN op' = [ name |-> "Decode", g |-> g, arg |-> bits, err |-> r.err,
                value |-> r.value ]
  /\ UNCHANGED << standardTables, heap, pc, number, table, ret, stores, ncalls, hits >>

HolderInitTree(g, codeTable) ==
  /\ Holds(g)
  /\ LET r == InitTree(heap[ret[g].table].s, codeTable)
     IN /\ heap' = [ heap EXCEPT ![ret[g].table].s = r.s ]
        /\ op' = [ name |-> "InitTree", g |-> g, arg |-> codeTable, err |-> r.err,
                   value |-> r.codeTable ]
  /\ UNCHANGED << standardTables, pc, number, table, ret, stores, ncalls, hits >>

HolderString(g) ==
  /\ Holds(g)
  /\ op' = [ name |-> "String", g |-> g, arg |-> << >>, err |-> FALSE,
             value |-> String(heap[ret[g].table].s) ]
  /\ UNCHANGED << standardTables, heap, pc, number, table, ret, stores, ncalls, hits >>

HolderRootNode(g) ==
  /\ Holds(g)
  /\ op' = [ name |-> "RootNode", g |-> g, arg |-> << >>, err |-> FALSE,
             value |-> RootNode(heap[ret[g].table].s) ]
  /\ UNCHANGED << standardTables, heap, pc, number, table, ret, stores, ncalls, hits >>

HolderStep(g) ==
  \/ \E bits \in HolderStreams : HolderDecode(g, bits)
  \/ \E codeTable \in HolderCodeTables(heap[ret[g].table].number) :
       HolderInitTree(g, codeTable)
  \/ HolderString(g)
  \/ HolderRootNode(g)

(***************************************************************************)
(* Goroutines calling GetStandardTable concurrently.                       *)
(***************************************************************************)
Next ==
  \/ \E g \in Goroutines, n \in RaceNumbers : Call(g, n) /\ UNCHANGED << opt, gen, da, doc, getda >>
  \/ \E g \in Goroutines : Load(g) /\ UNCHANGED << opt, gen, da, doc, getda >>
  \/ \E g \in Goroutines : New(g) /\ UNCHANGED << opt, gen, da, doc, getda >>
  \/ \E g \in Goroutines : Store(g) /\ UNCHANGED << opt, gen, da, doc, getda >>
  \/ \E g \in Goroutines : Return(g) /\ UNCHANGED << opt, gen, da, doc, getda >>
  \/ \E g \in Goroutines : Continue(g) /\ UNCHANGED << opt, gen, da, doc, getda >>

Spec == Init /\ [][Next]_vars

(***************************************************************************)
(* One caller: a sequential series of GetStandardTable calls.              *)
(***************************************************************************)
NextSeq ==
  \/ \E n \in Numbers : Call(1, n) /\ UNCHANGED << opt, gen, da, doc, getda >>
  \/ Load(1) /\ UNCHANGED << opt, gen, da, doc, getda >>
  \/ New(1) /\ UNCHANGED << opt, gen, da, doc, getda >>
  \/ Store(1) /\ UNCHANGED << opt, gen, da, doc, getda >>
  \/ Return(1) /\ UNCHANGED << opt, gen, da, doc, getda >>
  \/ Continue(1) /\ UNCHANGED << opt, gen, da, doc, getda >>
  \/ Holds(1) /\ HolderStep(1) /\ UNCHANGED << opt, gen, da, doc, getda >>

SpecSeq == Init /\ [][NextSeq]_vars

TypeOK ==
  /\ \A n \in 1..NumTables : standardTables[n] \in 0..Len(heap)
  /\ \A g \in Goroutines : pc[g] \in {"idle", "load", "new", "store", "return", "done"}
  /\ ncalls \in 0..MaxCalls

(***************************************************************************)
(* One table built by newStandardTable and decoded with: the streams are   *)
(* the prefix of one of its codes followed by the raw bits of an offset.   *)
(***************************************************************************)
\* the bits of x, most significant first, on n places
NatToBits(x, n) == [ i \in 1..n |-> (x \div Pow2(n - i)) % 2 ]

\* sample 16-bit halves of a raw offset
Halves == { 0, 1, Pow2(15), Pow2(16) - 1 }

\* sample raw offsets of rangeLength bits, as << high 16 bits, low 16 bits >>
RawSamples(rangeLength) ==
  IF rangeLength < 0 THEN { << 0, 0 >> }
  ELSE IF rangeLength > 16 THEN { << h, l >> : h \in Halves, l \in Halves }
  ELSE { << 0, r % Pow2(rangeLength) >> : r \in Halves }
         \cup { << 0, Pow2(rangeLength) - 1 >>, << 0, Pow2(rangeLength) \div 2 >> }

\* the bits of a raw offset of rangeLength bits
RawBits(rangeLength, raw) ==
  IF rangeLength < 0 THEN << >>
  ELSE IF rangeLength > 16
  THEN NatToBits(raw[1], rangeLength - 16) \o NatToBits(raw[2], 16)
  ELSE NatToBits(raw[2], rangeLength)

\* the stream of code c carrying the raw offset raw
CodeStream(c, raw) ==
  NatToBits(c.code, c.prefixLength) \o RawBits(c.rangeLength, raw)

\* a direct call of newStandardTable on the rows of table n
TreeNew(n) ==
  /\ heap = << >>
  /\ op = NoOp
  /\ LET r == newStandardTable(tables[n])
     IN /\ op' = [ name |-> "newStandardTable", g |-> 1, arg |-> tables[n],
                   err |-> ~r.ok, value |-> r.codeTable ]
        /\ IF r.ok
           THEN /\ heap' = << [ number |-> n, s |-> r.s, codeTable |-> r.codeTable ] >>
                /\ ret' = [ ret EXCEPT ![1] = [ table |-> 1, err |-> "" ] ]
           ELSE /\ heap' = heap
                /\ ret' = [ ret EXCEPT ![1] = [ table |-> 0, err |-> "InitTree" ] ]
  /\ number' = [ number EXCEPT ![1] = n ]
  /\ UNCHANGED << standardTables, pc, table, stores, ncalls, hits >>

\* Decode on the stream of the i-th code of the table
TreeDecode(i, raw) ==
  /\ Holds(1)
  /\ i \in 1..Len(heap[1].codeTable)
  /\ raw \in RawSamples(heap[1].codeTable[i].rangeLength)
  /\ HolderDecode(1, CodeStream(heap[1].codeTable[i], raw))

\* the codes of the table built, with their prefixes
TreeCodes == IF heap = << >> THEN << >> ELSE heap[1].codeTable

NextTree ==
  \/ \E n \in 1..NumTables : TreeNew(n) /\ UNCHANGED << opt, gen, da, doc, getda >>
  \/ \E i \in 1..Len(TreeCodes) :
       \E raw \in RawSamples(TreeCodes[i].rangeLength) :
         TreeDecode(i, raw) /\ UNCHANGED << opt, gen, da, doc, getda >>
  \/ \E bits \in HolderStreams :
       Holds(1) /\ HolderDecode(1, bits) /\ UNCHANGED << opt, gen, da, doc, getda >>

SpecTree == Init /\ [][NextTree]_vars

(***************************************************************************)
(* Properties of the cache.                                                *)
(***************************************************************************)
\* the tables allocated for index n
Built(n) == { i \in 1..Len(heap) : heap[i].number = n }

\* the goroutines whose call for index n has returned a table
Returned(n) == { g \in Goroutines : pc[g] = "done" /\ number[g] = n /\ ret[g].table # 0 }

\* C1: under concurrent first use, table n is constructed exactly once, its
\* cache slot is written once and every caller receives the same instance.
C1_ConstructOnce ==
  \A n \in 1..NumTables :
    /\ Cardinality(Built(n)) <= 1
    /\ stores[n] <= 1
    /\ \A g, h \in Returned(n) : ret[g].table = ret[h].table

C2_Inv ==
  \A n \in 1..NumTables :
    /\ Cardinality(Built(n)) <= 1
    /\ stores[n] <= 1
    /\ standardTables[n] # 0 => Built(n) = { standardTables[n] }
    /\ \A g \in Returned(n) : ret[g].table = standardTables[n]

C2_Step ==
  \A n \in 1..NumTables :
    /\ standardTables[n] # 0 => standardTables'[n] = standardTables[n]
    /\ standardTables'[n] # standardTables[n] => number[1] = n /\ pc[1] = "store"
    /\ Built(n) # {} => Built(n)' = Built(n)

\* C2: over a sequential series of calls each index is built at most once and
\* stored in its own slot, later calls return that same instance, and no call
\* changes the slot of another index.
C2_BuiltOnce == [] C2_Inv /\ [][C2_Step]_vars

\* a second call for an index returned the table the first call had stored
C2_Witness ==
  /\ hits >= 1
  /\ pc[1] = "done"
  /\ ret[1].table # 0
  /\ ret[1].table = standardTables[number[1]]
  /\ Len(heap) = 1

\* C3: no method of a Tabler handed out by GetStandardTable changes the tree
\* of a table once it is allocated.
C3_Immutable == [][\A i \in 1..Len(heap) : heap'[i].s = heap[i].s]_vars

\* a holder called InitTree on the cached table and was refused
C3_Witness ==
  /\ op.name = "InitTree"
  /\ op.err
  /\ op.arg # << >>
  /\ ret[1].table = standardTables[number[1]]

C4_Inv ==
  \A g \in Goroutines :
    pc[g] = "done" =>
      IF number[g] <= 0 \/ number[g] > 15
      THEN ret[g] = [ table |-> 0, err |-> "Index out of range" ]
      ELSE ret[g].table # 0 /\ ret[g].err = ""

C4_Step ==
  \A g \in Goroutines :
    (pc[g] = "idle" /\ pc'[g] = "done") =>
      /\ standardTables' = standardTables
      /\ heap' = heap

\* C4: a number outside 1..15 gets a nil table and "Index out of range" with
\* the cache unchanged; every number in 1..15 gets a table and no error.
C4_RangeCheck == [] C4_Inv /\ [][C4_Step]_vars

\* a call with a number above 15 was refused while the cache held a table
C4_Witness ==
  /\ pc[1] = "done"
  /\ number[1] > 15
  /\ ret[1].err = "Index out of range"
  /\ Len(heap) > 0

(***************************************************************************)
(* Properties of the tables.                                               *)
(***************************************************************************)
\* the table newStandardTable was called for, and its rows
TreeBuilt == op.name = "newStandardTable"
Decoded   == heap # << >> /\ op.name = "Decode"
Rows      == tables[number[1]]

\* the prefix (a, la) is a prefix of (b, lb)
IsPrefixOf(a, la, b, lb) == la <= lb /\ b \div Pow2(lb - la) = a

\* C5: the prefixes InitTree assigns to the codes of a standard table are
\* bit strings of the code's prefix length, none a prefix of (or equal to)
\* another.
C5_PrefixFree ==
  TreeBuilt =>
    \A i \in 1..Len(op.value) :
      /\ op.value[i].prefixLength = Rows[i][1]
      /\ op.value[i].code >= 0
      /\ op.value[i].code < Pow2(op.value[i].prefixLength)
      /\ \A j \in 1..Len(op.value) :
           i # j => ~IsPrefixOf(op.value[i].code, op.value[i].prefixLength,
                                op.value[j].code, op.value[j].prefixLength)

\* table B8 (21 rows, prefix lengths 2..9) was built
C5_Witness ==
  /\ TreeBuilt
  /\ number[1] = 8
  /\ ~op.err
  /\ Len(op.value) = 21
  /\ \E i \in 1..21 : op.value[i].prefixLength = 9 /\ op.value[i].code > 0

\* (la, a) comes before (lb, b) in ascending (prefixLength, declaration order)
Before(codes, a, b) ==
  \/ codes[a].prefixLength < codes[b].prefixLength
  \/ codes[a].prefixLength = codes[b].prefixLength /\ a < b

\* the code just before code i in that order, 0 if i is the first
Pred(codes, i) ==
  LET earlier == { j \in 1..Len(codes) : Before(codes, j, i) }
  IN IF earlier = {} THEN 0
     ELSE CHOOSE j \in earlier : \A k \in earlier : k = j \/ Before(codes, k, j)

\* C6: in ascending (prefixLength, declaration order) the first code gets the
\* all-zero prefix and each next code the previous prefix plus one, shifted
\* left by the difference of the two lengths.
C6_Canonical ==
  TreeBuilt =>
    \A i \in 1..Len(op.value) :
      LET p == Pred(op.value, i)
      IN op.value[i].code =
           IF p = 0 THEN 0
           ELSE (op.value[p].code + 1)
                  * Pow2(op.value[i].prefixLength - op.value[p].prefixLength)

\* table B3, whose rows are not declared by ascending prefix length, was built
C6_Witness ==
  /\ TreeBuilt
  /\ number[1] = 3
  /\ ~op.err
  /\ op.value[1].prefixLength = 8
  /\ op.value[1].code = 254
  /\ op.value[2].code = 0

\* the integer of an int64 that lies within 32 bits
IntOf64(v) ==
  IF v[4] = 0 /\ v[3] = 0 /\ v[2] < Pow2(15) THEN v[2] * Pow2(16) + v[1]
  ELSE IF v[4] = Pow2(16) - 1 /\ v[3] = Pow2(16) - 1 /\ v[2] >= Pow2(15)
  THEN (v[2] - Pow2(16)) * Pow2(16) + v[1]
  ELSE Pow2(30) + Pow2(30) - 1

\* C8: the prefix of a plain-range code followed by rangeLength raw bits r
\* decodes to rangeLow + r; B1's bit 0 and 4 raw bits give a value in [0,16);
\* six 1 bits decode to OOB in B2.
C8_PlainRange ==
  Decoded =>
    /\ \A i \in 1..Len(Rows) :
         \A raw \in RawSamples(Rows[i][2]) :
           ( /\ Rows[i][2] # 0 - 1
             /\ Rows[i][2] # 32
             /\ op.arg = CodeStream(heap[1].codeTable[i], raw) )
           => /\ ~op.err
              /\ IntOf64(op.value) = Rows[i][3] + raw[2]
    /\ (number[1] = 1 /\ Len(op.arg) = 5 /\ op.arg[1] = 0)
         => ~op.err /\ IntOf64(op.value) \in 0..15
    /\ (number[1] = 2 /\ op.arg = << 1, 1, 1, 1, 1, 1 >>)
         => ~op.err /\ op.value = MaxInt64

\* B1 decoded the bit 0 followed by the raw bits 1111
C8_Witness ==
  /\ Decoded
  /\ number[1] = 1
  /\ op.arg = << 0, 1, 1, 1, 1 >>
  /\ ~op.err
  /\ op.value = << 15, 0, 0, 0 >>

\* low + sign * (hi * 2^16 + lo) as an int64, by long arithmetic on the halves
Expect64(low, sign, hi, lo) ==
  LET t == low + sign * lo
      h == sign * hi + (t \div Pow2(16))
      g == h \div Pow2(16)
  IN << t % Pow2(16), h % Pow2(16), g % Pow2(16), (g \div Pow2(16)) % Pow2(16) >>

\* C9: a code is lower-range exactly when its row is an escape row
\* (rangeLength 32) with a fourth element; a code of rangeLength 32 decodes to
\* rangeLow minus the raw 32-bit value when lower-range, else to rangeLow plus
\* it; no other code is lower-range.
C9_Escape ==
  /\ TreeBuilt =>
       \A i \in 1..Len(op.value) :
         /\ op.value[i].isLowerRange <=> (Rows[i][2] = 32 /\ Len(Rows[i]) > 3)
         /\ Len(Rows[i]) > 3 => Rows[i][2] = 32
  /\ heap # << >> =>
       \A x \in heap[1].s.rootNode :
         /\ x.isLowerRange => x.kind = "value" /\ x.rangeLength = 32
         /\ x.isLowerRange <=>
              \E i \in 1..Len(Rows) :
                /\ Len(Rows[i]) > 3
                /\ x.depth = heap[1].codeTable[i].prefixLength
                /\ x.path = heap[1].codeTable[i].code
  /\ Decoded =>
       \A i \in 1..Len(Rows) :
         \A raw \in RawSamples(Rows[i][2]) :
           (Rows[i][2] = 32 /\ op.arg = CodeStream(heap[1].codeTable[i], raw))
           => /\ ~op.err
              /\ op.value = Expect64(Rows[i][3],
                                     IF Len(Rows[i]) > 3 THEN 0 - 1 ELSE 1,
                                     raw[1], raw[2])

\* B3 decoded its low escape code with the raw value 2^32 - 1
C9_Witness ==
  /\ Decoded
  /\ number[1] = 3
  /\ op.arg = NatToBits(255, 8) \o [ i \in 1..32 |-> 1 ]
  /\ ~op.err
  /\ op.value = << 65280, 65535, 65534, 65535 >>

\* the stream starts with the prefix of an OOB code of the table
StartsWithOOB(bits) ==
  \E i \in 1..Len(Rows) :
    /\ Rows[i][2] = 0 - 1
    /\ Len(bits) >= heap[1].codeTable[i].prefixLength
    /\ SubSeq(bits, 1, heap[1].codeTable[i].prefixLength)
         = NatToBits(heap[1].codeTable[i].code, heap[1].codeTable[i].prefixLength)

\* C10: the tables with an OOB row are B2, B3, B8, B9 and B10; the prefix of
\* an OOB code decodes without error to the "value absent" result, which no
\* numeric code of the table decodes to.
C10_OutOfBand ==
  /\ TreeBuilt =>
       ((\E i \in 1..Len(Rows) : Rows[i][2] = 0 - 1) <=> number[1] \in {2, 3, 8, 9, 10})
  /\ Decoded =>
       /\ StartsWithOOB(op.arg) => ~op.err /\ op.value = MaxInt64
       /\ (~op.err /\ op.value = MaxInt64) => StartsWithOOB(op.arg)

\* B9 decoded the prefix 01 of its OOB code
C10_Witness ==
  /\ Decoded
  /\ number[1] = 9
  /\ StartsWithOOB(op.arg)
  /\ ~op.err
  /\ op.value = MaxInt64


(***************************************************************************)
(* CompressStreams.Optimize: the objects of a document are visited in      *)
(* order and every stream without a filter is handed to the flate encoder. *)
(* A stream is its dictionary's Filter and Length entries and the length   *)
(* of its data; the encoder's output is an input of each step.             *)
(***************************************************************************)

\* an object that is not a stream
NonStream == [ kind |-> "object", filter |-> "nil", len |-> 0, length |-> 0 ]

\* a stream with Filter entry f and n bytes of data, its Length entry right
MakeStream(f, n) == [ kind |-> "stream", filter |-> f, len |-> n, length |-> n ]

\* the objects a document holds: Filter is absent ("nil"), a name, an empty
\* array, a non-empty array ("array") or some other object
PdfObjects ==
  {NonStream}
    \cup { MakeStream(f, MaxStreamLen) : f \in {"name", "array", "emptyArray", "other"} }
    \cup { MakeStream("nil", n) : n \in 0..MaxStreamLen }

\* core.GetStream
GetStream(obj) == obj.kind = "stream"

\* the stream is already encoded: its Filter is a name or a non-empty array
Skip_ArraysOnly(stream) == stream.filter = "array"
Skip(stream) == stream.filter \in {"name", "array"}

\* compare compressed and uncompressed sizes
IsSmaller_Always(data, dictLen, streamLen) == TRUE
IsSmaller(data, dictLen, streamLen) == data + dictLen < streamLen

\* the stream after its data is replaced by data bytes, the encoder's
\* dictionary merged in and Length set
Merge(stream, data, setsFilter) ==
  [ stream EXCEPT !.len = data,
                  !.filter = IF setsFilter THEN "name" ELSE @,
                  !.length = data ]

\* the heaps a call starts from, and the object lists over a heap of n
\* objects: each object once, and with the first object listed again
Heaps == UNION { [ 1..n -> PdfObjects ] : n \in 0..MaxObjects }
ObjectLists(n) ==
  { [ i \in 1..n |-> i ] }
    \cup { [ i \in 1..(n + 1) |-> IF i > n THEN 1 ELSE i ] : k \in { m \in {1} : n > 0 } }

OptimizeInit ==
  /\ CacheInit
  /\ gen = 0
  /\ da = 0
  /\ doc = 0
  /\ getda = 0
  /\ \E h \in Heaps, d \in 0..MaxDictLen, f \in BOOLEAN :
       \E objs \in ObjectLists(Len(h)) :
         opt = [ heap |-> h, orig |-> h, objects |-> objs,
                 optimizedObjects |-> objs, i |-> 1,
                 dictLen |-> d, setsFilter |-> f, data |-> 0,
                 state |-> "loop", err |-> FALSE ]

\* the object the loop is at
Current == opt.heap[opt.objects[opt.i]]

InLoop == opt.state = "loop" /\ opt.i <= Len(opt.objects)

OptimizeFrame == UNCHANGED << cacheVars, gen, da, doc, getda >>

\* the object is not a stream, or is an encoded one: continue
OptimizeSkip ==
  /\ InLoop
  /\ ~GetStream(Current) \/ Skip(Current)
  /\ opt' = [ opt EXCEPT !.i = @ + 1 ]
  /\ OptimizeFrame

\* EncodeBytes fails: the call returns the error
OptimizeEncodeError ==
  /\ InLoop
  /\ GetStream(Current) /\ ~Skip(Current)
  /\ opt' = [ opt EXCEPT !.state = "done", !.err = TRUE ]
  /\ OptimizeFrame

\* EncodeBytes yields data bytes: the stream takes them when that is smaller
OptimizeEncode(data) ==
  /\ InLoop
  /\ GetStream(Current) /\ ~Skip(Current)
  /\ opt' = [ opt EXCEPT
       !.heap[opt.objects[opt.i]] =
          IF IsSmaller(data, opt.dictLen, Current.len)
            THEN Merge(@, data, opt.setsFilter)
            ELSE @,
       !.data = data,
       !.i = @ + 1 ]
  /\ OptimizeFrame

\* the loop is over
OptimizeReturn ==
  /\ opt.state = "loop"
  /\ opt.i > Len(opt.objects)
  /\ opt' = [ opt EXCEPT !.state = "done" ]
  /\ OptimizeFrame

NextOptimize ==
  \/ OptimizeSkip
  \/ OptimizeEncodeError
  \/ \E data \in 0..(MaxStreamLen + 1) : OptimizeEncode(data)
  \/ OptimizeReturn

SpecOptimize == OptimizeInit /\ [][NextOptimize]_vars

\* the object was not an uncompressed stream when the call started
Encoded(obj) == ~GetStream(obj) \/ obj.filter \in {"name", "array"}

\* C18: every stream whose Filter entry is a name or a non-empty array, and
\* every object that is not a stream, is at every point of Optimize what it
\* was when the call started (data length, Filter and Length entries), and
\* the list returned holds the objects of the list passed in.
C18_EncodedUntouched ==
  /\ \A id \in DOMAIN opt.heap :
       Encoded(opt.orig[id]) => opt.heap[id] = opt.orig[id]
  /\ opt.optimizedObjects = opt.objects

\* Optimize has returned without error from a list with an encoded stream, an
\* object that is no stream and a stream it has compressed
C18_Witness ==
  /\ opt.state = "done" /\ ~opt.err
  /\ \E id \in DOMAIN opt.heap : opt.orig[id].filter = "name"
  /\ \E id \in DOMAIN opt.heap :
       ~Encoded(opt.orig[id]) /\ opt.heap[id] # opt.orig[id]

\* C19: a step of Optimize changes a stream only when the compressed length
\* plus the length of the dictionary's string form is strictly less than the
\* data length of the stream, the new data length being the compressed one;
\* so no stream's data is ever longer than when the call started.
C19_Step ==
  \A id \in DOMAIN opt.heap :
    opt'.heap[id] # opt.heap[id] =>
      /\ opt'.data + opt.dictLen < opt.heap[id].len
      /\ opt'.heap[id].len = opt'.data

C19_NeverLonger ==
  \A id \in DOMAIN opt.heap : opt.heap[id].len <= opt.orig[id].len

C19_NeverIncreases == [][C19_Step]_vars /\ []C19_NeverLonger

\* a stream listed twice was compressed at the first visit and Optimize has
\* returned
C19_Witness ==
  /\ opt.state = "done"
  /\ Len(opt.objects) > Len(opt.heap)
  /\ opt.heap[1].len < opt.orig[1].len


(***************************************************************************)
(* FieldAppearance.GenerateAppearanceDict: one call on a field and its     *)
(* widget.  A dictionary is "existing" (the widget's AP), "generated" (a   *)
(* dictionary made by one of the generators) or "nil".                     *)
(***************************************************************************)

\* the field flags the text cases look at
TextFlags == {"FieldFlagPassword", "FieldFlagFileSelect", "FieldFlagComb"}

\* the contexts of a field: a text field with its flags and MaxLen, a button
\* that is a checkbox or not, a choice with the Combo flag or not, or none
Contexts ==
  [ type : {"PdfFieldText"}, flags : SUBSET TextFlags, MaxLen : BOOLEAN,
    IsCheckbox : {FALSE}, Combo : {FALSE} ]
    \cup [ type : {"PdfFieldButton"}, flags : {{}}, MaxLen : {FALSE},
           IsCheckbox : BOOLEAN, Combo : {FALSE} ]
    \cup [ type : {"PdfFieldChoice"}, flags : {{}}, MaxLen : {FALSE},
           IsCheckbox : {FALSE}, Combo : BOOLEAN ]
    \cup [ type : {"nil"}, flags : {{}}, MaxLen : {FALSE},
           IsCheckbox : {FALSE}, Combo : {FALSE} ]

GenerateInit ==
  /\ CacheInit
  /\ opt = 0
  /\ da = 0
  /\ doc = 0
  /\ getda = 0
  /\ \E c \in Contexts, has \in BOOLEAN, oim \in BOOLEAN, rtf \in BOOLEAN,
        dr \in {"nil", "resources"} :
       gen = [ field |-> c, has |-> has, OnlyIfMissing |-> oim,
               RegenerateTextFields |-> rtf, DR |-> dr, DR0 |-> dr,
               pc |-> "call", generator |-> "none",
               appDict |-> "nil", err |-> FALSE ]

\* _, isText := field.GetContext().(*model.PdfFieldText)
isText == gen.field.type = "PdfFieldText"

\* the widget is populated already and is not to be generated again
Populated_IgnoreRegenerate == gen.has /\ gen.OnlyIfMissing
Populated ==
  gen.has /\ gen.OnlyIfMissing /\ (~isText \/ ~gen.RegenerateTextFields)

\* the generator the switch on the field's context arrives at: "none" where
\* the switch returns nil, nil
Generator_NoPassword(c) ==
  CASE c.type = "PdfFieldText" ->
         IF "FieldFlagFileSelect" \in c.flags THEN "none"
         ELSE IF "FieldFlagComb" \in c.flags /\ c.MaxLen
           THEN "genFieldTextCombAppearance"
         ELSE "genFieldTextAppearance"
    [] c.type = "PdfFieldButton" ->
         IF c.IsCheckbox THEN "genFieldCheckboxAppearance" ELSE "none"
    [] c.type = "PdfFieldChoice" ->
         IF c.Combo THEN "genFieldComboboxAppearance" ELSE "none"
    [] OTHER -> "none"
Generator(c) ==
  CASE c.type = "PdfFieldText" ->
         IF "FieldFlagPassword" \in c.flags THEN "none"
         ELSE IF "FieldFlagFileSelect" \in c.flags THEN "none"
         ELSE IF "FieldFlagComb" \in c.flags /\ c.MaxLen
           THEN "genFieldTextCombAppearance"
         ELSE "genFieldTextAppearance"
    [] c.type = "PdfFieldButton" ->
         IF c.IsCheckbox THEN "genFieldCheckboxAppearance" ELSE "none"
    [] c.type = "PdfFieldChoice" ->
         IF c.Combo THEN "genFieldComboboxAppearance" ELSE "none"
    [] OTHER -> "none"

\* what a generator returns: a new dictionary, an error, or for a text field
\* without text neither
Outcomes(g) ==
  IF g = "genFieldTextAppearance" THEN {"generated", "nil", "err"}
  ELSE {"generated", "err"}

\* form.DR after lines 142-144
NewPdfPageResources == "resources"

GenerateFrame == UNCHANGED << cacheVars, opt, da, doc, getda >>

\* Already populated - ignoring
GenerateIgnore ==
  /\ gen.pc = "call"
  /\ Populated
  /\ gen' = [ gen EXCEPT !.pc = "done", !.appDict = "existing" ]
  /\ GenerateFrame

\* the switch arrives at no generator: return nil, nil
GenerateNone ==
  /\ gen.pc = "call"
  /\ ~Populated
  /\ Generator(gen.field) = "none"
  /\ gen' = [ gen EXCEPT !.pc = "done", !.DR = NewPdfPageResources ]
  /\ GenerateFrame

\* the switch arrives at a generator, which returns out
GenerateAppearance(out) ==
  /\ gen.pc = "call"
  /\ ~Populated
  /\ Generator(gen.field) # "none"
  /\ out \in Outcomes(Generator(gen.field))
  /\ gen' = [ gen EXCEPT !.pc = "done", !.DR = NewPdfPageResources,
                         !.generator = Generator(gen.field),
                         !.appDict = IF out = "err" THEN "nil" ELSE out,
                         !.err = (out = "err") ]
  /\ GenerateFrame

NextGenerate ==
  \/ GenerateIgnore
  \/ GenerateNone
  \/ \E out \in {"generated", "nil", "err"} : GenerateAppearance(out)

SpecGenerate == GenerateInit /\ [][NextGenerate]_vars

\* C13: when GenerateAppearanceDict has returned, it has returned the
\* widget's existing dictionary, without error, with no generator run and
\* form.DR as it was, exactly when the widget had an AP dictionary and
\* OnlyIfMissing was true and not (text field and RegenerateTextFields); in
\* every other case what it returned is not the existing dictionary: it is
\* what the generator returned, or nil where there is no generator.
C13_ExistingExactlyWhen ==
  gen.pc = "done" =>
    LET early == gen.has /\ gen.OnlyIfMissing
                   /\ ~(gen.field.type = "PdfFieldText" /\ gen.RegenerateTextFields)
        existing == /\ gen.appDict = "existing"
                    /\ ~gen.err
                    /\ gen.generator = "none"
                    /\ gen.DR = gen.DR0
    IN  /\ existing <=> early
        /\ ~early => /\ gen.appDict \in {"generated", "nil"}
                     /\ gen.generator = "none" => gen.appDict = "nil" /\ ~gen.err

\* a text field with an AP dictionary and OnlyIfMissing was generated again
\* because RegenerateTextFields is set
C13_Witness ==
  /\ gen.pc = "done"
  /\ gen.has /\ gen.OnlyIfMissing /\ gen.RegenerateTextFields
  /\ gen.field.type = "PdfFieldText"
  /\ gen.appDict = "generated"

\* a text field with the Password flag
IsPassword == gen.field.type = "PdfFieldText" /\ "FieldFlagPassword" \in gen.field.flags

\* C14 (as stated): for a text field with the Password flag the call returns
\* nil and no error, whatever OnlyIfMissing, RegenerateTextFields and the
\* widget's AP are.
C14_PasswordAlwaysNil ==
  gen.pc = "done" /\ IsPassword => gen.appDict = "nil" /\ ~gen.err

\* C14 (amended): for a text field with the Password flag no generator runs
\* and no error is returned; the call returns nil, except that it returns the
\* widget's existing dictionary when the widget has an AP dictionary,
\* OnlyIfMissing is true and RegenerateTextFields is false.
C14_PasswordNeverGenerated ==
  gen.pc = "done" /\ IsPassword =>
    /\ gen.generator = "none"
    /\ ~gen.err
    /\ gen.appDict =
         IF gen.has /\ gen.OnlyIfMissing /\ ~gen.RegenerateTextFields
           THEN "existing" ELSE "nil"

\* a password field whose widget has an AP dictionary went through the switch
C14_Witness ==
  /\ gen.pc = "done"
  /\ IsPassword
  /\ gen.has
  /\ ~gen.OnlyIfMissing
  /\ gen.appDict = "nil"


(***************************************************************************)
(* AppearanceStyle.processDA: the font of a field's appearance, from the   *)
(* style's fallback fonts, the Tf operand of the default appearance (DA)   *)
(* and the fonts of the form resources (DR).                               *)
(***************************************************************************)

\* a nil *AppearanceFont
NilFont == [ Name |-> "", Font |-> "nil", Size |-> 0 ]

\* &AppearanceFont{Name: name, Font: font, Size: size}
AppearanceFont(name, font, size) == [ Name |-> name, Font |-> font, Size |-> size ]

\* the fallback fonts of a style: the global one and those of field names
GlobalFont == AppearanceFont("Glob", "global", 10)
PartialFont == AppearanceFont("Part", "partial", 11)
FullFont == AppearanceFont("Full", "full", 9)

\* the names of the field: its partial name, and the full names it has as a
\* top-level field and as a child
PartialName == "p"
FullNames == {"p", "a.p"}

\* the values of Fonts.FieldFallbacks: a nil map, or a map with entries
\* (some of them nil) under the field's names
FieldFallbackMaps ==
  { [ isNil |-> TRUE, entries |-> << >> ] }
    \cup { [ isNil |-> FALSE, entries |-> m ] : m \in UNION {
             { f \in [ K -> {NilFont, PartialFont, FullFont} ] :
                 \A k \in K : f[k] \in {NilFont, IF k = PartialName THEN PartialFont ELSE FullFont} }
             : K \in SUBSET FullNames } }

\* the values of style.Fonts: nil, or an AppearanceFontStyle
FontStyles ==
  [ isNil : {TRUE}, Fallback : {NilFont}, FieldFallbacks : { [ isNil |-> TRUE, entries |-> << >> ] },
    ForceReplace : {FALSE} ]
    \cup [ isNil : {FALSE}, Fallback : {NilFont, GlobalFont},
           FieldFallbacks : FieldFallbackMaps, ForceReplace : BOOLEAN ]

\* operands of a DA: a Tf with a name and a number, a Tf whose parameters
\* are of the wrong types, a Tf with an empty name, a Tf with one parameter,
\* and an operand that is no Tf
NameParam(v) == [ type |-> "name", val |-> v, num |-> 0 ]
NumberParam(n) == [ type |-> "number", val |-> "", num |-> n ]
DaOperands ==
  { [ Operand |-> "Tf", Params |-> << NameParam("F1"), NumberParam(12) >> ],
    [ Operand |-> "Tf", Params |-> << NumberParam(8), NameParam("F1") >> ],
    [ Operand |-> "Tf", Params |-> << NameParam(""), NumberParam(0) >> ],
    [ Operand |-> "Tf", Params |-> << NameParam("F1") >> ],
    [ Operand |-> "g", Params |-> << NumberParam(0) >> ] }

\* the values of daOps: nil, or a list of operands
DaOps ==
  { [ isNil |-> TRUE, ops |-> << >> ] }
    \cup { [ isNil |-> FALSE, ops |-> o ] : o \in UNION { [ 1..n -> DaOperands ] : n \in 0..MaxDaOps } }

\* the values of dr: nil, or resources with the fonts of some names
Resources ==
  { [ isNil |-> TRUE, fonts |-> {} ] }
    \cup { [ isNil |-> FALSE, fonts |-> F ] : F \in SUBSET {"F1"} }

\* lines 1119-1136: the fallback font of the field
fallbackFont_GlobalLast(fonts, fullName, fullNameErr) ==
  IF fonts.isNil THEN NilFont
  ELSE IF fonts.Fallback # NilFont THEN fonts.Fallback
  ELSE IF fonts.FieldFallbacks.isNil THEN NilFont
  ELSE LET fieldFallbacks == fonts.FieldFallbacks.entries
       IN  IF PartialName \in DOMAIN fieldFallbacks THEN fieldFallbacks[PartialName]
           ELSE IF ~fullNameErr /\ fullName \in DOMAIN fieldFallbacks
             THEN fieldFallbacks[fullName]
           ELSE NilFont
fallbackFont(fonts, fullName, fullNameErr) ==
  IF fonts.isNil THEN NilFont
  ELSE LET global == fonts.Fallback
           fieldFallbacks == fonts.FieldFallbacks.entries
       IN  IF fonts.FieldFallbacks.isNil THEN global
           ELSE IF PartialName \in DOMAIN fieldFallbacks THEN fieldFallbacks[PartialName]
           ELSE IF ~fullNameErr /\ fullName \in DOMAIN fieldFallbacks
             THEN fieldFallbacks[fullName]
           ELSE global

\* lines 1121, 1138
forceReplace_Never(fonts) == FALSE
forceReplace(fonts) == ~fonts.isNil /\ fonts.ForceReplace

\* lines 1141-1159: the font name and size of the Tf operands, whether there
\* was one, and the operands passed on to the content creator
\* line 1146: the operand is a Tf with its two parameters
IsTf_Never(o) == FALSE
IsTf(o) == o.Operand = "Tf" /\ Len(o.Params) = 2

RECURSIVE ExtractTf(_, _)
ExtractTf(ops, acc) ==
  IF ops = << >> THEN acc
  ELSE LET o == Head(ops)
       IN  IF IsTf(o)
             THEN ExtractTf(Tail(ops),
                    [ acc EXCEPT
                        !.fontName = IF o.Params[1].type = "name" THEN o.Params[1].val ELSE @,
                        !.fontSize = IF o.Params[2].type = "number" THEN o.Params[2].num ELSE @,
                        !.hasTf = TRUE ])
             ELSE ExtractTf(Tail(ops), [ acc EXCEPT !.cc = Append(@, o) ])

NoTf == [ fontName |-> "", fontSize |-> 0, hasTf |-> FALSE, cc |-> << >> ]

\* lines 1168-1177: the font of the DA as found in DR and loaded, or nil
FontFromDR(dr, tf, loads) ==
  IF ~dr.isNil /\ tf.fontName # "" /\ tf.fontName \in dr.fonts /\ loads
    THEN AppearanceFont(tf.fontName, << "dr", tf.fontName >>, tf.fontSize)
    ELSE NilFont

\* lines 1161-1191: the appearance font, NilFont standing for the error of
\* NewStandard14Font
Select_FallbackFirst(force, fallback, drFont, tf, std14) ==
  IF fallback # NilFont THEN fallback
  ELSE IF drFont # NilFont THEN drFont
  ELSE IF std14 THEN AppearanceFont("Helv", "Helvetica", tf.fontSize)
  ELSE NilFont
Select(force, fallback, drFont, tf, std14) ==
  IF force /\ fallback # NilFont THEN fallback
  ELSE IF drFont # NilFont THEN drFont
  ELSE IF fallback # NilFont THEN fallback
  ELSE IF std14 THEN AppearanceFont("Helv", "Helvetica", tf.fontSize)
  ELSE NilFont

\* lines 1193-1203: the resources with the appearance font added under its
\* name, unless they are nil or have a font of that name
SetFontByName(res, apFont) ==
  IF res.isNil THEN res ELSE [ res EXCEPT !.fonts = @ \cup {apFont.Name} ]

\* processDA on the arguments in, loads telling whether the font found in DR
\* can be loaded and std14 whether NewStandard14Font succeeds
processDA(in, loads, std14) ==
  LET fallback == fallbackFont(in.Fonts, in.fullName, in.fullNameErr)
      force == forceReplace(in.Fonts)
      tf == IF in.daOps.isNil THEN NoTf ELSE ExtractTf(in.daOps.ops, NoTf)
      drFont == FontFromDR(in.dr, tf, loads)
      apFont == Select(force, fallback, drFont, tf, std14)
  IN  IF apFont = NilFont
        THEN [ apFont |-> NilFont, hasTf |-> FALSE, err |-> TRUE,
               fallback |-> fallback, tf |-> tf,
               dr |-> in.dr, resources |-> in.resources ]
        ELSE [ apFont |-> apFont, hasTf |-> tf.hasTf, err |-> FALSE,
               fallback |-> fallback, tf |-> tf,
               dr |-> SetFontByName(in.dr, apFont),
               resources |-> SetFontByName(in.resources, apFont) ]

\* nothing returned yet
NoResult(in) ==
  [ apFont |-> NilFont, hasTf |-> FALSE, err |-> FALSE, fallback |-> NilFont,
    tf |-> NoTf, dr |-> in.dr, resources |-> in.resources ]

\* the arguments of a call: the style's fonts, the field's full name or the
\* error of FullName, the DA operands, DR and the resources of the appearance
ProcessInputs ==
  [ Fonts : FontStyles, fullName : FullNames, fullNameErr : BOOLEAN,
    daOps : DaOps, dr : Resources,
    resources : { [ isNil |-> FALSE, fonts |-> {} ] } ]

ProcessInit ==
  /\ CacheInit
  /\ opt = 0
  /\ gen = 0
  /\ doc = 0
  /\ getda = 0
  /\ \E in \in ProcessInputs :
       da = [ in |-> in, pc |-> "call", loads |-> FALSE, std14 |-> FALSE,
              out |-> NoResult(in) ]

ProcessFrame == UNCHANGED << cacheVars, opt, gen, doc, getda >>

\* the call returns a font
ProcessReturn(loads, std14) ==
  /\ da.pc = "call"
  /\ ~processDA(da.in, loads, std14).err
  /\ da' = [ da EXCEPT !.pc = "done", !.loads = loads, !.std14 = std14,
                       !.out = processDA(da.in, loads, std14) ]
  /\ ProcessFrame

\* the call returns the error of NewStandard14Font
ProcessError(loads, std14) ==
  /\ da.pc = "call"
  /\ processDA(da.in, loads, std14).err
  /\ da' = [ da EXCEPT !.pc = "done", !.loads = loads, !.std14 = std14,
                       !.out = processDA(da.in, loads, std14) ]
  /\ ProcessFrame

NextProcess ==
  \/ \E loads \in BOOLEAN, std14 \in BOOLEAN : ProcessReturn(loads, std14)
  \/ \E loads \in BOOLEAN, std14 \in BOOLEAN : ProcessError(loads, std14)

SpecProcess == ProcessInit /\ [][NextProcess]_vars

\* the entries of Fonts.FieldFallbacks, none for a nil style or a nil map
Entries ==
  IF da.in.Fonts.isNil \/ da.in.Fonts.FieldFallbacks.isNil THEN << >>
  ELSE da.in.Fonts.FieldFallbacks.entries

\* the field's full name is known and has an entry
HasFullEntry == ~da.in.fullNameErr /\ da.in.fullName \in DOMAIN Entries

\* the font the DA names is in DR and loads
DAFontInDR ==
  /\ ~da.in.dr.isNil
  /\ da.out.tf.fontName # ""
  /\ da.out.tf.fontName \in da.in.dr.fonts
  /\ da.loads

\* C15: the fallback processDA works with is the entry of FieldFallbacks
\* under the field's partial name if there is one, else the entry under its
\* full name if there is one, and Fonts.Fallback only when neither name has
\* an entry; and where a fallback is what is returned (it is not nil, and
\* ForceReplace is set or the DA font is not in DR) that entry is returned.
C15_FieldFallbackFirst ==
  da.pc = "done" =>
    LET expected ==
          IF PartialName \in DOMAIN Entries THEN Entries[PartialName]
          ELSE IF HasFullEntry THEN Entries[da.in.fullName]
          ELSE IF da.in.Fonts.isNil THEN NilFont
          ELSE da.in.Fonts.Fallback
    IN  /\ da.out.fallback = expected
        /\ (expected # NilFont /\ (da.in.Fonts.ForceReplace \/ ~DAFontInDR))
             => da.out.apFont = expected /\ ~da.out.err

\* with a global fallback and no entry under the partial name, the entry
\* under the full name was returned
C15_Witness ==
  /\ da.pc = "done"
  /\ ~da.in.Fonts.isNil
  /\ da.in.Fonts.Fallback = GlobalFont
  /\ PartialName \notin DOMAIN Entries
  /\ HasFullEntry
  /\ da.out.apFont = FullFont

\* C16: with ForceReplace and a fallback font the font returned is the
\* fallback, also when the DA names a font that is in DR and loads; with no
\* fallback font what is returned is what the call returns on the same
\* arguments with ForceReplace the other way.
C16_ForceReplace ==
  da.pc = "done" /\ ~da.in.Fonts.isNil =>
    /\ (da.in.Fonts.ForceReplace /\ da.out.fallback # NilFont)
         => da.out.apFont = da.out.fallback /\ ~da.out.err
    /\ da.out.fallback = NilFont
         => da.out = processDA(
              [ da.in EXCEPT !.Fonts.ForceReplace = ~da.in.Fonts.ForceReplace ],
              da.loads, da.std14)

\* ForceReplace replaced a DA font that is in DR and loads
C16_Witness ==
  /\ da.pc = "done"
  /\ ~da.in.Fonts.isNil
  /\ da.in.Fonts.ForceReplace
  /\ DAFontInDR
  /\ da.out.apFont = GlobalFont

\* ForceReplace is off
NotForced == da.in.Fonts.isNil \/ ~da.in.Fonts.ForceReplace

\* C17: without ForceReplace, a DA font that is in DR and loads is returned
\* under its name with the DA's size; otherwise the fallback is, if there is
\* one; otherwise Helvetica is, under the name "Helv" with the DA's size,
\* unless Helvetica cannot be made, which is the only error.
C17_FallbackOrder ==
  da.pc = "done" /\ NotForced =>
    IF DAFontInDR
      THEN /\ da.out.apFont.Name = da.out.tf.fontName
           /\ da.out.apFont.Font = << "dr", da.out.tf.fontName >>
           /\ da.out.apFont.Size = da.out.tf.fontSize
           /\ ~da.out.err
    ELSE IF da.out.fallback # NilFont
      THEN da.out.apFont = da.out.fallback /\ ~da.out.err
    ELSE IF da.std14
      THEN /\ da.out.apFont = AppearanceFont("Helv", "Helvetica", da.out.tf.fontSize)
           /\ ~da.out.err
    ELSE da.out.err

\* without ForceReplace the DA font in DR was preferred to a fallback
C17_Witness ==
  /\ da.pc = "done"
  /\ NotForced
  /\ DAFontInDR
  /\ da.out.fallback # NilFont
  /\ da.out.apFont.Name = "F1"
  /\ da.out.apFont.Size = 12


(***************************************************************************)
(* The JBIG2 document assembler: the segments of a stream are taken in     *)
(* order, their references checked, their payloads handed to the decoder   *)
(* of their type, and regions collected into the bitmaps of their pages.   *)
(* A bitmap is the list of the numbers of the regions drawn on the page.   *)
(***************************************************************************)

\* the pages a segment is associated with
Pages == 1..2

\* a segment header without its number: a symbol dictionary, a region that
\* may refer to one segment, or the end of a page
SegmentHeaders ==
  [ type : {"dictionary"}, page : {1}, refs : {{}} ]
    \cup [ type : {"region"}, page : Pages,
           refs : {{}} \cup { {r} : r \in 1..(MaxSegments + 1) } ]
    \cup [ type : {"endOfPage"}, page : Pages, refs : {{}} ]

\* the streams: up to MaxSegments headers, numbered in order from first
Streams == UNION { [ 1..n -> SegmentHeaders ] : n \in 0..MaxSegments }

\* the errors of a payload decoder
DecodeErrors == {"MalformedSegment", "UnsupportedFeature", "UnexpectedEndOfData"}

NoError == [ kind |-> "none", segment |-> 0 ]

DocumentInit ==
  /\ CacheInit
  /\ opt = 0
  /\ gen = 0
  /\ da = 0
  /\ getda = 0
  /\ \E segs \in Streams, first \in 1..2 :
       doc = [ segments |-> segs, first |-> first, i |-> 1,
               decoded |-> {}, payloads |-> {},
               buffers |-> [ p \in Pages |-> << >> ],
               finished |-> {}, bitmaps |-> [ p \in Pages |-> << >> ],
               state |-> "decoding", err |-> NoError ]

\* the segment the assembler is at, and its number
Segment == doc.segments[doc.i]
SegmentNumber == doc.first + doc.i - 1

\* the type of the decoded segment of number r
TypeOf(r) == doc.segments[r - doc.first + 1].type

\* every referred segment has a smaller number, is decoded and is a dictionary
ValidReferences_OrderOnly == \A r \in Segment.refs : r < SegmentNumber
ValidReferences ==
  \A r \in Segment.refs :
    /\ r < SegmentNumber
    /\ r \in doc.decoded
    /\ TypeOf(r) = "dictionary"

AtSegment == doc.state = "decoding" /\ doc.i <= Len(doc.segments)

DocumentFrame == UNCHANGED << cacheVars, opt, gen, da, getda >>

\* a reference to an undecoded or wrong-type predecessor: fatal, no partial
\* output
InvalidReference ==
  /\ AtSegment
  /\ ~ValidReferences
  /\ doc' = [ doc EXCEPT !.state = "failed",
                         !.err = [ kind |-> "InvalidReference", segment |-> SegmentNumber ],
                         !.finished = {},
                         !.bitmaps = [ p \in Pages |-> << >> ] ]
  /\ DocumentFrame

\* the payload of a dictionary or region is decoded
DecodeSegment ==
  /\ AtSegment
  /\ ValidReferences
  /\ Segment.type \in {"dictionary", "region"}
  /\ doc' = [ doc EXCEPT
       !.i = @ + 1,
       !.decoded = @ \cup {SegmentNumber},
       !.payloads = @ \cup {SegmentNumber},
       !.buffers[Segment.page] =
          IF Segment.type = "region" THEN Append(@, SegmentNumber) ELSE @ ]
  /\ DocumentFrame

\* the decoder of the payload fails: the failure is reported and the pages
\* finished so far remain
DecodeFailure_NoOutput(kind) ==
  /\ AtSegment
  /\ ValidReferences
  /\ Segment.type \in {"dictionary", "region"}
  /\ doc' = [ doc EXCEPT !.state = "failed",
                         !.payloads = @ \cup {SegmentNumber},
                         !.err = [ kind |-> kind, segment |-> SegmentNumber ],
                         !.finished = {},
                         !.bitmaps = [ p \in Pages |-> << >> ] ]
  /\ DocumentFrame
DecodeFailure(kind) ==
  /\ AtSegment
  /\ ValidReferences
  /\ Segment.type \in {"dictionary", "region"}
  /\ doc' = [ doc EXCEPT !.state = "failed",
                         !.payloads = @ \cup {SegmentNumber},
                         !.err = [ kind |-> kind, segment |-> SegmentNumber ] ]
  /\ DocumentFrame

\* the end of a page: its bitmap is finished, once
EndOfPage ==
  /\ AtSegment
  /\ ValidReferences
  /\ Segment.type = "endOfPage"
  /\ doc' = [ doc EXCEPT
       !.i = @ + 1,
       !.decoded = @ \cup {SegmentNumber},
       !.finished = @ \cup {Segment.page},
       !.bitmaps[Segment.page] =
          IF Segment.page \in doc.finished THEN @ ELSE doc.buffers[Segment.page] ]
  /\ DocumentFrame

\* the stream is at its end: the finished pages are the result
EndOfStream ==
  /\ doc.state = "decoding"
  /\ doc.i > Len(doc.segments)
  /\ doc' = [ doc EXCEPT !.state = "done" ]
  /\ DocumentFrame

NextDocument ==
  \/ InvalidReference
  \/ DecodeSegment
  \/ \E kind \in DecodeErrors : DecodeFailure(kind)
  \/ EndOfPage
  \/ EndOfStream

SpecDocument == DocumentInit /\ [][NextDocument]_vars

\* the segment at hand refers to a segment whose number is not below its own
\* or that is not decoded
BadReference ==
  \E r \in Segment.refs : r >= SegmentNumber \/ r \notin doc.decoded

\* C11: a step on a segment that refers to a segment whose number is greater
\* than or equal to its own, or to one that is not decoded yet, fails with
\* InvalidReference for that segment, and the payload of the segment has not
\* been handed to a decoder.
C11_Step ==
  (AtSegment /\ BadReference) =>
    /\ doc'.state = "failed"
    /\ doc'.err = [ kind |-> "InvalidReference", segment |-> SegmentNumber ]
    /\ SegmentNumber \notin doc'.payloads
    /\ doc'.decoded = doc.decoded

C11_InvalidReference == [][C11_Step]_vars

\* a region that refers to a smaller number that was never decoded has failed
\* with InvalidReference after another segment was decoded
C11_Witness ==
  /\ doc.state = "failed"
  /\ doc.err.kind = "InvalidReference"
  /\ doc.decoded # {}
  /\ \E r \in doc.segments[doc.i].refs : r < doc.err.segment
  /\ doc.err.segment \notin doc.payloads

\* the regions of page p before the first end of p, in the order of the stream
RECURSIVE RegionsOf(_, _)
RegionsOf(p, k) ==
  IF k > Len(doc.segments) THEN << >>
  ELSE LET s == doc.segments[k]
       IN  IF s.page = p /\ s.type = "endOfPage" THEN << >>
           ELSE IF s.page = p /\ s.type = "region"
             THEN << doc.first + k - 1 >> \o RegionsOf(p, k + 1)
           ELSE RegionsOf(p, k + 1)

\* the step is one that fails
Fails == doc.state = "decoding" /\ doc'.state = "failed"

\* the result after the step holds every page finished before it, each with
\* the bitmap of its regions, and an error that names the segment
PagesKept ==
  /\ doc'.finished = doc.finished
  /\ \A p \in doc.finished : doc'.bitmaps[p] = RegionsOf(p, 1)
  /\ doc'.err.kind # "none"
  /\ doc'.err.segment = SegmentNumber

\* C12 (as stated): whatever the failure, every page finished before it is
\* returned with its bitmap, together with an error that names the failing
\* segment.
C12_Step == Fails => PagesKept

C12_AmendedStep ==
  Fails =>
    IF doc'.err.kind \in DecodeErrors THEN PagesKept
    ELSE /\ doc'.err = [ kind |-> "InvalidReference", segment |-> SegmentNumber ]
         /\ ~ValidReferences
         /\ doc'.finished = {}

Operands == IF da.in.daOps.isNil THEN << >> ELSE da.in.daOps.ops

\* the operands the content creator was given
Added == da.out.tf.cc

NamedTf(o) == o.Operand = "Tf"
NotNamedTf(o) == o.Operand # "Tf"
FullTf(o) == o.Operand = "Tf" /\ Len(o.Params) = 2
NotFullTf(o) == ~(o.Operand = "Tf" /\ Len(o.Params) = 2)

Parents(i) == {0, 1} \cup { j \in {i + 1} : j <= MaxFields }

\* the forms: each field is a text field or not, a text field has DA or
\* not, and each field has a parent
Forms ==
  { f \in [ 1..MaxFields -> [ isText : BOOLEAN, hasDA : BOOLEAN, Parent : 0..MaxFields ] ] :
      \A i \in 1..MaxFields :
        /\ f[i].Parent \in Parents(i)
        /\ f[i].hasDA => f[i].isText }

\* ftxt.DA.Str()
Str(i) == << i >>

GetDAInit ==
  /\ CacheInit
  /\ opt = 0
  /\ gen = 0
  /\ da = 0
  /\ doc = 0
  /\ \E f \in Forms, field \in 0..1 :
       getda = [ fields |-> f, field |-> field, cur |-> field,
                 pc |-> "call", result |-> << >> ]

GetDAFrame == UNCHANGED << cacheVars, opt, gen, da, doc >>

\* if field == nil { return "" }
GetDANil ==
  /\ getda.pc = "call"
  /\ getda.cur = 0
  /\ getda' = [ getda EXCEPT !.pc = "done", !.result = << >> ]
  /\ GetDAFrame

\* the field is no text field: return getDA(field.Parent)
GetDAParent_Empty ==
  /\ getda.pc = "call"
  /\ getda.cur # 0
  /\ ~getda.fields[getda.cur].isText
  /\ getda' = [ getda EXCEPT !.pc = "done", !.result = << >> ]
  /\ GetDAFrame
GetDAParent ==
  /\ getda.pc = "call"
  /\ getda.cur # 0
  /\ ~getda.fields[getda.cur].isText
  /\ getda' = [ getda EXCEPT !.cur = getda.fields[getda.cur].Parent ]
  /\ GetDAFrame

\* the text field has DA: return ftxt.DA.Str()
GetDAOwn ==
  /\ getda.pc = "call"
  /\ getda.cur # 0
  /\ getda.fields[getda.cur].isText
  /\ getda.fields[getda.cur].hasDA
  /\ getda' = [ getda EXCEPT !.pc = "done", !.result = Str(getda.cur) ]
  /\ GetDAFrame

\* the text field has no DA: return getDA(ftxt.Parent)
GetDAInherit ==
  /\ getda.pc = "call"
  /\ getda.cur # 0
  /\ getda.fields[getda.cur].isText
  /\ ~getda.fields[getda.cur].hasDA
  /\ getda' = [ getda EXCEPT !.cur = getda.fields[getda.cur].Parent ]
  /\ GetDAFrame

NextGetDA ==
  \/ GetDANil
  \/ GetDAParent
  \/ GetDAOwn
  \/ GetDAInherit

SpecGetDA == GetDAInit /\ [][NextGetDA]_vars

\* a call that can take a step takes it
FairGetDA == SpecGetDA /\ WF_vars(NextGetDA)

\* the k-th field on the way from the field of the call through Parent, 0
\* from the nil field on
RECURSIVE Ancestor(_)
Ancestor(k) ==
  IF k = 0 THEN getda.field
  ELSE IF Ancestor(k - 1) = 0 THEN 0
  ELSE getda.fields[Ancestor(k - 1)].Parent

\* the chain of parents ends: no field comes twice
AcyclicChain == Ancestor(MaxFields) = 0

\* the places on the chain of the fields that have a DA
Holders ==
  { k \in 0..(MaxFields - 1) : Ancestor(k) # 0 /\ getda.fields[Ancestor(k)].hasDA }

First(S) == CHOOSE k \in S : \A j \in S : k <= j

\* what getDA returns on an acyclic chain: the string of the first field on
\* the chain that has one, "" when none has
C21_Result ==
  (getda.pc = "done" /\ AcyclicChain) =>
    getda.result = IF Holders = {} THEN << >> ELSE Str(Ancestor(First(Holders)))

\* C21: on a chain of parents that ends, the nil field included, getDA
\* returns, and what it returns is the DA of the field itself when it has
\* one, otherwise that of the nearest ancestor that has one, otherwise "".
C21_NearestDA == []C21_Result /\ (AcyclicChain => <>(getda.pc = "done"))

\* a field without DA under a parent with DA under a grandparent with DA got
\* the parent's
C21_Witness ==
  /\ getda.pc = "done"
  /\ getda.field = 1
  /\ ~getda.fields[1].hasDA
  /\ getda.fields[1].Parent = 2 /\ getda.fields[2].hasDA
  /\ getda.fields[2].Parent = 3 /\ getda.fields[3].hasDA
  /\ getda.result = Str(2)

====
